---- MODULE Spec2Model ----
(***************************************************************************)
(* nnUNet_package: orchestration of one single-image nnUNetv2 inference.   *)
(* Two modules implement the same five steps (registry lookup, model       *)
(* fetch, input staging, inference, output finishing):                     *)
(*   main.py     command-line entry point, inference through a subprocess  *)
(*   predict.py  library entry point, inference through nnUNetPredictor    *)
(* The model keeps the file system the steps act on (model directories,    *)
(* archives, manifests, imagesTs directories, input images, the output     *)
(* directory), the module-level GLOBAL_CONTEXT, and the position of the    *)
(* current run.  Each function of the source is one action.                *)
(***************************************************************************)
EXTENDS Naturals, Sequences, FiniteSets, TLC

VARIABLES
    variant,        \* which module this process runs: "main" or "predict"
    pc,             \* position of the current run
    err,            \* exception that ended the run, or None
    args,           \* arguments of the current run
    model,          \* model_info["model_name"] of the current run, or None
    cache,          \* GLOBAL_CONTEXT["dataset_json_path"]: model whose manifest it names, or None
    labels,         \* GLOBAL_CONTEXT["dataset_labels"]
    modelDir,       \* per model: what <models_dir>/<model_name> holds
    zip,            \* per model: whether <models_dir>/<model_name>.zip exists
    manifest,       \* per model: content of its dataset.json, or None
    imagesTs,       \* per model: entries of the imagesTs directory next to its manifest
    inputs,         \* per input path: content of the file, or None
    outExists,      \* whether the output directory exists
    outDir,         \* names of the files in the output directory
    imagesTs_path,  \* imagesTs path returned by the staging step (the model it belongs to)
    ret,            \* value returned by the last call that returns a path
    warned,         \* whether the last rename_prediction_file call printed its warning
    produced,       \* whether the inference of this run wrote 001.nrrd
    engine,         \* how the inference of this run ended: "none", "ok" or "error"
    ops,            \* file-system and external calls made by the current run, in order
    runs            \* number of runs started

vars == <<variant, pc, err, args, model, cache, labels, modelDir, zip, manifest,
          imagesTs, inputs, outExists, outDir, imagesTs_path, ret, warned,
          produced, engine, ops, runs>>

None == "None"

\* Bound on the number of runs in one behaviour.
MaxRuns == 2

\* ---------------------------------------------------------------- registry
Animals == {"rabbit", "pig"}
Modes == {"Invivo", "Exvivo"}
Structures == {"Parenchyma", "Lobes"}
Models == {"A", "B"}

\* models.json of predict.py: config[animal][mode][structure]
predict_config ==
    [c \in {<<"rabbit", "Invivo", "Parenchyma">>, <<"rabbit", "Exvivo", "Parenchyma">>}
       |-> IF c[2] = "Invivo" THEN "A" ELSE "B"]

\* models.json of main.py: config[mode][structure]
main_config ==
    [c \in {<<"Invivo", "Parenchyma">>, <<"Exvivo", "Parenchyma">>}
       |-> IF c[1] = "Invivo" THEN "A" ELSE "B"]

\* faulty variant: a lookup with a default entry instead of a KeyError
predict_lookup_default(animal, mode, structure) ==
    IF <<animal, mode, structure>> \in DOMAIN predict_config
    THEN predict_config[<<animal, mode, structure>>]
    ELSE "A"

\* config[animal][mode][structure]; None stands for the KeyError
predict_lookup(animal, mode, structure) ==
    IF <<animal, mode, structure>> \in DOMAIN predict_config
    THEN predict_config[<<animal, mode, structure>>]
    ELSE None

\* config[args.mode][args.structure]; None stands for the KeyError
main_lookup(mode, structure) ==
    IF <<mode, structure>> \in DOMAIN main_config
    THEN main_config[<<mode, structure>>]
    ELSE None

\* ---------------------------------------------------------------- files
Inputs == {"scan.nrrd", "SCAN.NRRD", "scan.mha"}
Names == {"prediction", "001"}

splitext(p) ==
    CASE p = "scan.nrrd" -> ".nrrd"
      [] p = "SCAN.NRRD" -> ".NRRD"
      [] p = "scan.mha" -> ".mha"
      [] p = "scan.nii" -> ".nii"
      [] OTHER -> ""

lower(e) ==
    CASE e = ".NRRD" -> ".nrrd"
      [] e = ".MHA" -> ".mha"
      [] e = ".NII" -> ".nii"
      [] OTHER -> e

\* on-disk format of an image file with extension e
FormatOf(e) ==
    CASE lower(e) = ".nrrd" -> "nrrd"
      [] lower(e) = ".mha" -> "mha"
      [] lower(e) = ".nii" -> "nii"
      [] OTHER -> "unknown"

\* no file at the path
NoContent == [img |-> None, fmt |-> None]

\* the image file the user keeps at path p
OriginalFile(p) == [img |-> p, fmt |-> FormatOf(splitext(p))]

\* sitk.ReadImage followed by sitk.WriteImage to a .nrrd path: same image, NRRD format
Converted(f) == [img |-> f.img, fmt |-> "nrrd"]

\* faulty variant: the staged name keeps the source extension
DstNameFromSource(input_image) == "001_0000" \o lower(splitext(input_image))

\* os.path.join(imagesTs_path, "001_0000.nrrd")
DstName(input_image) == "001_0000.nrrd"

ScratchFiles == {"dataset.json", "plans.json", "predict_from_raw_data_args.json"}
RawOutput == "001.nrrd"
NameFile(n) == n \o ".nrrd"

\* ---------------------------------------------------------------- manifest
StagedRef == "./imagesTs/001_0000.nrrd"

\* A dataset.json is a dict: keys holds the keys present, the fields their
\* values (a field whose key is not present is not part of the dict).
NoManifest ==
    [keys |-> {}, training |-> <<>>, numTraining |-> 0, numTest |-> 0,
     test |-> <<>>, labels |-> {}]

\* manifests the archives ship: as trained, and one that already lists test images
ArchiveManifests ==
    { [keys |-> {"training", "numTraining", "labels"},
       training |-> <<"case_1", "case_2">>, numTraining |-> 2, numTest |-> 0,
       test |-> <<>>, labels |-> {<<"background", 0>>, <<"lung", 1>>}],
      [keys |-> {"numTraining", "numTest", "test", "labels"},
       training |-> <<>>, numTraining |-> 2, numTest |-> 3,
       test |-> <<<<"./imagesTs/007_0000.nrrd">>, <<"./imagesTs/008_0000.nrrd">>>>,
       labels |-> {<<"background", 0>>, <<"airways", 1>>, <<"vessels", 2>>}] }

\* {int(v): k for k, v in raw_label_map.items() if int(v) > 0}
LabelsOf(d) == {<<p[2], p[1]>> : p \in {q \in d.labels : q[2] > 0}}

\* faulty variant: the training list is kept
EditKeepTraining(d) ==
    [d EXCEPT !.keys = @ \cup {"numTraining", "numTest", "test"},
              !.numTraining = 0, !.numTest = 1, !.test = <<<<StagedRef>>>>]

\* dataset.pop("training", None); numTraining = 0; numTest = 1; test = [[...]]
EditManifest(d) ==
    [d EXCEPT !.keys = (@ \ {"training"}) \cup {"numTraining", "numTest", "test"},
              !.training = <<>>,
              !.numTraining = 0, !.numTest = 1, !.test = <<<<StagedRef>>>>]

\* ---------------------------------------------------------------- model directory
\* what a model directory can hold:
\*   "absent"      the path does not exist
\*   "good"        <dir>/<trainer>/<plans>/dataset.json, as the released archives
\*   "flat"        dataset.json directly in <dir>, no sub-directory
\*   "nomanifest"  sub-directories but no dataset.json anywhere
DirKinds == {"absent", "good", "flat", "nomanifest"}
\* what the downloaded archive can hold; "empty" extracts nothing
ArchiveKinds == {"good", "flat", "nomanifest", "empty"}

\* faulty variant: the presence test looks at the archive instead of the directory
NeedsDownloadByZip(dirs, zips, m) == ~zips[m]

\* if not os.path.exists(model_path)
NeedsDownload(dirs, zips, m) == dirs[m] = "absent"

\* zip_ref.extractall(model_path)
Extracted(kind) == IF kind = "empty" THEN "absent" ELSE kind

\* os.walk(model_dir) finds a dataset.json
HasManifest(kind) == kind \in {"good", "flat"}

\* next(d for d in os.listdir(model_path) if isdir) twice: the trained-model folder
HasModelFolder(kind) == kind \in {"good", "nomanifest"}

\* ---------------------------------------------------------------- imagesTs directory
\* an entry of an imagesTs directory: a regular file or a symbolic link
FileEntry(name, content) == [name |-> name, kind |-> "file", target |-> None, content |-> content]
LinkEntry(name, path) == [name |-> name, kind |-> "link", target |-> path, content |-> NoContent]

\* os.path.lexists(dst)
lexists(dir, name) == \E e \in dir : e.name = name

\* os.path.exists(dst): a broken link does not exist
exists(dir, name, files) ==
    \E e \in dir : e.name = name /\ (e.kind = "file" \/ files[e.target] # NoContent)

\* os.remove(dst)
remove(dir, name) == {e \in dir : e.name # name}

\* what reading <dir>/<name> yields: the file, or the file a link points at
ReadEntry(dir, name, files) ==
    IF \E e \in dir : e.name = name
    THEN LET e == CHOOSE x \in dir : x.name = name
         IN IF e.kind = "file" THEN e.content ELSE files[e.target]
    ELSE NoContent

\* ---------------------------------------------------------------- the run
NoArgs == [animal |-> None, mode |-> None, structure |-> None, input |-> None, name |-> None]

TypeOK ==
    /\ variant \in {"main", "predict"}
    /\ pc \in {"idle", "fetch", "stage", "infer", "rename", "cleanup", "done",
               "renamed", "failed"}
    /\ model \in Models \cup {None}
    /\ cache \in Models \cup {None}
    /\ modelDir \in [Models -> DirKinds]
    /\ zip \in [Models -> BOOLEAN]
    /\ outDir \subseteq ScratchFiles \cup {RawOutput, "notes.txt"} \cup {NameFile(n) : n \in Names}
    /\ runs \in 0..MaxRuns

Init ==
    /\ variant \in {"main", "predict"}
    /\ pc = "idle"
    /\ err = None
    /\ args = NoArgs
    /\ model = None
    /\ cache = None
    /\ labels = {}
    /\ modelDir \in {[m \in Models |-> "absent"],
                    [m \in Models |-> IF m = "B" THEN "nomanifest" ELSE "absent"]}
    /\ zip = [m \in Models |-> FALSE]
    /\ manifest = [m \in Models |-> NoManifest]
    /\ imagesTs = [m \in Models |-> {}]
    /\ inputs = [p \in Inputs |-> OriginalFile(p)]
    /\ outDir \in {{}, {"notes.txt", "plans.json"}}
    /\ outExists \in {TRUE, outDir # {}}
    /\ imagesTs_path = None
    /\ ret = None
    /\ warned = FALSE
    /\ produced = FALSE
    /\ engine = "none"
    /\ ops = <<>>
    /\ runs = 0

\* what a run starts from: nothing returned, nothing logged
StartRun(a, m) ==
    /\ runs < MaxRuns
    /\ runs' = runs + 1
    /\ args' = a
    /\ model' = m
    /\ pc' = IF m = None THEN "failed" ELSE "fetch"
    /\ err' = IF m = None THEN "KeyError" ELSE None
    /\ imagesTs_path' = None
    /\ ret' = None
    /\ warned' = FALSE
    /\ produced' = FALSE
    /\ engine' = "none"
    /\ ops' = <<>>

\* main(): argument parsing, makedirs(models_dir), registry lookup
main_begin ==
    /\ variant = "main"
    /\ pc = "idle"
    /\ \E mode \in Modes, structure \in Structures, input \in Inputs, name \in Names :
          StartRun([animal |-> None, mode |-> mode, structure |-> structure,
                    input |-> input, name |-> name],
                   main_lookup(mode, structure))
    /\ UNCHANGED <<variant, cache, labels, modelDir, zip, manifest, imagesTs, inputs,
                   outExists, outDir>>

\* run_nnunet_prediction(): makedirs(models_dir), makedirs(output_dir), registry
\* lookup.  The function takes no output name; args.name is the name its caller holds.
predict_begin ==
    /\ variant = "predict"
    /\ pc = "idle"
    /\ \E animal \in Animals, mode \in Modes, structure \in Structures,
          input \in Inputs, name \in Names :
          StartRun([animal |-> animal, mode |-> mode, structure |-> structure,
                    input |-> input, name |-> name],
                   predict_lookup(animal, mode, structure))
    /\ outExists' = TRUE
    /\ UNCHANGED <<variant, cache, labels, modelDir, zip, manifest, imagesTs, inputs,
                   outDir>>

\* ---------------------------------------------------------------- model fetcher
\* urllib.request.urlretrieve then ZipFile.extractall: the archive the server
\* sends decides what the model directory holds afterwards
Downloaded(m, kind, d) ==
    /\ modelDir' = [modelDir EXCEPT ![m] = Extracted(kind)]
    /\ manifest' = [manifest EXCEPT ![m] = d]

\* the manifests an archive of this kind carries: the released archives the
\* manifest as trained, a flat repacked archive one that already lists test images
ManifestsIn(kind) ==
    IF HasManifest(kind)
    THEN {d \in ArchiveManifests : ("training" \in d.keys) = (kind = "good")}
    ELSE {NoManifest}

\* main.py: the os.walk for dataset.json, the test of the cache, the labels
main_find_dataset_json(m) ==
    LET path == IF HasManifest(modelDir'[m]) THEN m ELSE cache
    IN IF path = None
       THEN /\ pc' = "failed"
            /\ err' = "FileNotFoundError"
            /\ UNCHANGED <<cache, labels>>
       ELSE /\ cache' = path
            /\ labels' = LabelsOf(manifest'[path])
            /\ pc' = "stage"
            /\ err' = None

\* main.py download_and_extract_model: the archive is never removed
main_download_and_extract_model ==
    /\ variant = "main"
    /\ pc = "fetch"
    /\ IF NeedsDownload(modelDir, zip, model)
       THEN \/ \* urlretrieve raises; a partly written archive may be left
               /\ \E partial \in BOOLEAN :
                     zip' = [zip EXCEPT ![model] = @ \/ partial]
               /\ ops' = Append(ops, "urlretrieve")
               /\ pc' = "failed"
               /\ err' = "URLError"
               /\ UNCHANGED <<modelDir, manifest, cache, labels>>
            \/ \E kind \in ArchiveKinds :
                 \E d \in ManifestsIn(kind) :
                    /\ Downloaded(model, kind, d)
                    /\ zip' = [zip EXCEPT ![model] = TRUE]
                    /\ ops' = ops \o <<"urlretrieve", "extractall">>
                    /\ main_find_dataset_json(model)
       ELSE /\ UNCHANGED <<zip, modelDir, manifest, ops>>
            /\ main_find_dataset_json(model)
    /\ UNCHANGED <<variant, args, model, imagesTs, inputs, outExists, outDir,
                   imagesTs_path, ret, warned, produced, engine, runs>>

\* predict.py find_dataset_json and the lines after it: the cache is assigned
\* only when a dataset.json is found, otherwise FileNotFoundError
predict_find_dataset_json(m) ==
    IF HasManifest(modelDir'[m])
    THEN /\ cache' = m
         /\ labels' = LabelsOf(manifest'[m])
         /\ pc' = "stage"
         /\ err' = None
    ELSE /\ pc' = "failed"
         /\ err' = "FileNotFoundError"
         /\ UNCHANGED <<cache, labels>>

\* predict.py download_and_extract_model: the archive is removed when it exists
predict_download_and_extract_model ==
    /\ variant = "predict"
    /\ pc = "fetch"
    /\ IF NeedsDownload(modelDir, zip, model)
       THEN \/ /\ \E partial \in BOOLEAN :
                     zip' = [zip EXCEPT ![model] = @ \/ partial]
               /\ ops' = Append(ops, "urlretrieve")
               /\ pc' = "failed"
               /\ err' = "URLError"
               /\ UNCHANGED <<modelDir, manifest, cache, labels>>
            \/ \E kind \in ArchiveKinds :
                 \E d \in ManifestsIn(kind) :
                    /\ Downloaded(model, kind, d)
                    /\ zip' = [zip EXCEPT ![model] = FALSE]
                    /\ ops' = ops \o <<"urlretrieve", "extractall", "remove_zip">>
                    /\ predict_find_dataset_json(model)
       ELSE /\ zip' = [zip EXCEPT ![model] = FALSE]
            /\ ops' = IF zip[model] THEN Append(ops, "remove_zip") ELSE ops
            /\ UNCHANGED <<modelDir, manifest>>
            /\ predict_find_dataset_json(model)
    /\ UNCHANGED <<variant, args, model, imagesTs, inputs, outExists, outDir,
                   imagesTs_path, ret, warned, produced, engine, runs>>

\* ---------------------------------------------------------------- input stager
\* the staging step ends with an exception: the manifest is not rewritten
StageFails(m, dir, e) ==
    /\ imagesTs' = [imagesTs EXCEPT ![m] = dir]
    /\ pc' = "failed"
    /\ err' = e
    /\ UNCHANGED <<manifest, inputs, imagesTs_path>>

\* the staging step returns: dataset["test"] is set and the manifest written
StageDone(m, dir, files) ==
    /\ imagesTs' = [imagesTs EXCEPT ![m] = dir]
    /\ inputs' = files
    /\ manifest' = [manifest EXCEPT ![m] = EditManifest(@)]
    /\ imagesTs_path' = m
    /\ pc' = "infer"
    /\ err' = None

\* main.py edit_dataset_json_for_prediction: dst is removed when os.path.exists
\* sees it, a .nrrd input is linked, any other input is converted
main_edit_dataset_json_for_prediction ==
    /\ variant = "main"
    /\ pc = "stage"
    /\ IF cache = None
       THEN /\ pc' = "failed"
            /\ err' = "RuntimeError"
            /\ UNCHANGED <<imagesTs, manifest, inputs, imagesTs_path, ops>>
       ELSE LET dst == DstName(args.input)
                old == imagesTs[cache]
                seen == exists(old, dst, inputs)
                dir == IF seen THEN remove(old, dst) ELSE old
                log == IF seen THEN Append(ops, "remove_dst") ELSE ops
            IN IF lower(splitext(args.input)) = ".nrrd"
               THEN IF lexists(dir, dst)
                    THEN \* os.symlink on a path that holds a broken link
                         /\ StageFails(cache, dir, "FileExistsError")
                         /\ ops' = log
                    ELSE /\ StageDone(cache, dir \cup {LinkEntry(dst, args.input)}, inputs)
                         /\ ops' = log \o <<"symlink", "write_manifest">>
               ELSE IF inputs[args.input] = NoContent
                    THEN \* sitk.ReadImage on a missing file
                         /\ StageFails(cache, dir, "RuntimeError")
                         /\ ops' = log
                    ELSE IF lexists(dir, dst)
                         THEN \* sitk.WriteImage through the broken link left at dst:
                              \* the file is created where the link points
                              LET e == CHOOSE x \in dir : x.name = dst
                              IN /\ StageDone(cache, dir,
                                       [inputs EXCEPT ![e.target] = Converted(inputs[args.input])])
                                 /\ ops' = log \o <<"convert", "write_manifest">>
                         ELSE /\ StageDone(cache,
                                     dir \cup {FileEntry(dst, Converted(inputs[args.input]))},
                                     inputs)
                              /\ ops' = log \o <<"convert", "write_manifest">>
    /\ UNCHANGED <<variant, args, model, cache, labels, modelDir, zip, outExists, outDir,
                   ret, warned, produced, engine, runs>>

\* predict.py edit_dataset_json_for_prediction: dst is removed when os.path.lexists
\* sees it, a .nrrd input is copied, any other input is converted
predict_edit_dataset_json_for_prediction ==
    /\ variant = "predict"
    /\ pc = "stage"
    /\ IF cache = None
       THEN /\ pc' = "failed"
            /\ err' = "RuntimeError"
            /\ UNCHANGED <<imagesTs, manifest, inputs, imagesTs_path, ops>>
       ELSE LET dst == DstName(args.input)
                old == imagesTs[cache]
                seen == lexists(old, dst)
                dir == IF seen THEN remove(old, dst) ELSE old
                log == IF seen THEN Append(ops, "remove_dst") ELSE ops
            IN IF inputs[args.input] = NoContent
               THEN \* shutil.copy or sitk.ReadImage on a missing file
                    /\ StageFails(cache, dir,
                          IF lower(splitext(args.input)) = ".nrrd"
                          THEN "FileNotFoundError" ELSE "RuntimeError")
                    /\ ops' = log
               ELSE IF lower(splitext(args.input)) = ".nrrd"
                    THEN /\ StageDone(cache, dir \cup {FileEntry(dst, inputs[args.input])}, inputs)
                         /\ ops' = log \o <<"copy", "write_manifest">>
                    ELSE /\ StageDone(cache,
                                dir \cup {FileEntry(dst, Converted(inputs[args.input]))},
                                inputs)
                         /\ ops' = log \o <<"convert", "write_manifest">>
    /\ UNCHANGED <<variant, args, model, cache, labels, modelDir, zip, outExists, outDir,
                   ret, warned, produced, engine, runs>>

\* ---------------------------------------------------------------- inference invoker
\* The inference engine is external.  It reads the cases of the input folder
\* (files named <case>_0000.nrrd), writes its three json files and one
\* <case>.nrrd per case into the output folder, and ends with or without an error.
CaseStaged(m) == ReadEntry(imagesTs[m], "001_0000.nrrd", inputs) # NoContent

\* the files an inference over imagesTs of model m can leave in the output folder
EngineWrites(m, ok) ==
    IF ok
    THEN {ScratchFiles} \cup (IF CaseStaged(m) THEN {ScratchFiles \cup {RawOutput}} ELSE {})
    ELSE {{}, ScratchFiles}

\* faulty variant: the exit code is not looked at
main_ignore_return_code(return_code) == "rename"

\* if return_code != 0: raise RuntimeError
main_after_predict(return_code) == IF return_code # 0 THEN "failed" ELSE "rename"

\* main.py: makedirs(args.output), nnUNet_results, run_nnunet_prediction
main_run_nnunet_prediction ==
    /\ variant = "main"
    /\ pc = "infer"
    /\ outExists' = TRUE
    /\ \E return_code \in {0, 1} :
          /\ \E wrote \in EngineWrites(imagesTs_path, return_code = 0) :
                /\ outDir' = outDir \cup wrote
                /\ produced' = (RawOutput \in wrote)
          /\ engine' = IF return_code = 0 THEN "ok" ELSE "error"
          /\ pc' = main_after_predict(return_code)
          /\ err' = IF pc' = "failed" THEN "RuntimeError" ELSE None
          /\ ret' = IF pc' = "failed" THEN None ELSE RawOutput
    /\ ops' = Append(ops, "predict")
    /\ UNCHANGED <<variant, args, model, cache, labels, modelDir, zip, manifest, imagesTs,
                   inputs, imagesTs_path, warned, runs>>

\* predict.py: the trained-model folder two levels below the model directory,
\* then nnunet_predict; an exception of the predictor ends the run
predict_nnunet_predict ==
    /\ variant = "predict"
    /\ pc = "infer"
    /\ IF ~HasModelFolder(modelDir[model])
       THEN \* os.path.join(model_path, None)
            /\ pc' = "failed"
            /\ err' = "TypeError"
            /\ UNCHANGED <<outDir, produced, engine, ops>>
       ELSE /\ \E ok \in BOOLEAN :
                 /\ \E wrote \in EngineWrites(imagesTs_path, ok) :
                       /\ outDir' = outDir \cup wrote
                       /\ produced' = (RawOutput \in wrote)
                 /\ engine' = IF ok THEN "ok" ELSE "error"
                 /\ pc' = IF ok THEN "cleanup" ELSE "failed"
                 /\ err' = IF ok THEN None ELSE "RuntimeError"
            /\ ops' = Append(ops, "predict")
    /\ UNCHANGED <<variant, args, model, cache, labels, modelDir, zip, manifest, imagesTs,
                   inputs, outExists, imagesTs_path, ret, warned, runs>>

\* ---------------------------------------------------------------- output finisher
\* faulty variant: the new path is returned although nothing was renamed
main_rename_returns_new_path(dir, prediction_path, new_name) ==
    IF prediction_path \in dir
    THEN [dir |-> (dir \ {prediction_path}) \cup {NameFile(new_name)},
          ret |-> NameFile(new_name), warned |-> FALSE]
    ELSE [dir |-> dir, ret |-> NameFile(new_name), warned |-> TRUE]

\* main.py rename_prediction_file: the directory afterwards, the value
\* returned, whether the warning was printed
main_rename_prediction_file(dir, prediction_path, new_name) ==
    IF prediction_path \in dir
    THEN [dir |-> (dir \ {prediction_path}) \cup {NameFile(new_name)},
          ret |-> NameFile(new_name), warned |-> FALSE]
    ELSE [dir |-> dir, ret |-> prediction_path, warned |-> TRUE]

\* predict.py rename_prediction_file: the same renaming, nothing is returned
predict_rename_prediction_file(dir, prediction_path, new_name) ==
    IF prediction_path \in dir
    THEN [dir |-> (dir \ {prediction_path}) \cup {NameFile(new_name)},
          ret |-> None, warned |-> FALSE]
    ELSE [dir |-> dir, ret |-> None, warned |-> TRUE]

\* for fname in [...]: if os.path.exists(fpath): os.remove(fpath)
cleanup_prediction_files(dir) == dir \ ScratchFiles

\* main.py: segmentation_path = rename_prediction_file(prediction_file, args.name)
main_rename ==
    /\ variant = "main"
    /\ pc = "rename"
    /\ LET r == main_rename_prediction_file(outDir, ret, args.name)
       IN /\ outDir' = r.dir
          /\ ret' = r.ret
          /\ warned' = r.warned
          /\ ops' = Append(ops, IF r.warned THEN "warn" ELSE "rename")
    /\ pc' = "cleanup"
    /\ UNCHANGED <<variant, err, args, model, cache, labels, modelDir, zip, manifest,
                   imagesTs, inputs, outExists, imagesTs_path, produced, engine, runs>>

\* main.py: cleanup_prediction_files(args.output), the final print
main_cleanup ==
    /\ variant = "main"
    /\ pc = "cleanup"
    /\ outDir' = cleanup_prediction_files(outDir)
    /\ ops' = IF outDir \cap ScratchFiles # {} THEN Append(ops, "remove_scratch") ELSE ops
    /\ pc' = "done"
    /\ UNCHANGED <<variant, err, args, model, cache, labels, modelDir, zip, manifest,
                   imagesTs, inputs, outExists, imagesTs_path, ret, warned, produced, engine, runs>>

\* predict.py: prediction_file = <output_dir>/001.nrrd, cleanup_prediction_files,
\* return prediction_file; rename_prediction_file is not called
predict_cleanup ==
    /\ variant = "predict"
    /\ pc = "cleanup"
    /\ outDir' = cleanup_prediction_files(outDir)
    /\ ops' = IF outDir \cap ScratchFiles # {} THEN Append(ops, "remove_scratch") ELSE ops
    /\ ret' = RawOutput
    /\ pc' = "done"
    /\ UNCHANGED <<variant, err, args, model, cache, labels, modelDir, zip, manifest,
                   imagesTs, inputs, outExists, imagesTs_path, warned, produced, engine, runs>>

\* predict.py rename_prediction_file called by the importer of the module on the
\* path run_nnunet_prediction returned
predict_rename ==
    /\ variant = "predict"
    /\ pc = "done"
    /\ LET r == predict_rename_prediction_file(outDir, ret, args.name)
       IN /\ outDir' = r.dir
          /\ ret' = r.ret
          /\ warned' = r.warned
          /\ ops' = Append(ops, IF r.warned THEN "warn" ELSE "rename")
    /\ pc' = "renamed"
    /\ UNCHANGED <<variant, err, args, model, cache, labels, modelDir, zip, manifest,
                   imagesTs, inputs, outExists, imagesTs_path, produced, engine, runs>>

\* ---------------------------------------------------------------- between runs
Ended == pc \in {"done", "renamed", "failed"}

ResetRun ==
    /\ pc' = "idle"
    /\ err' = None
    /\ args' = NoArgs
    /\ model' = None
    /\ imagesTs_path' = None
    /\ ret' = None
    /\ warned' = FALSE
    /\ produced' = FALSE
    /\ engine' = "none"
    /\ ops' = <<>>

\* the run is over and the same interpreter goes on: GLOBAL_CONTEXT is kept
SameProcess ==
    /\ Ended
    /\ ResetRun
    /\ UNCHANGED <<variant, cache, labels, modelDir, zip, manifest, imagesTs, inputs,
                   outExists, outDir, runs>>

\* the interpreter exits and the module is loaded afresh: GLOBAL_CONTEXT is
\* initialised to None, the file system stays
NewProcess ==
    /\ Ended
    /\ ResetRun
    /\ cache' = None
    /\ labels' = {}
    /\ UNCHANGED <<variant, modelDir, zip, manifest, imagesTs, inputs, outExists,
                   outDir, runs>>

\* once the run is over the user deletes the input image it was given
DeleteInput ==
    /\ Ended
    /\ inputs[args.input] # NoContent
    /\ inputs' = [inputs EXCEPT ![args.input] = NoContent]
    /\ UNCHANGED <<variant, pc, err, args, model, cache, labels, modelDir, zip, manifest,
                   imagesTs, outExists, outDir, imagesTs_path, ret, warned, produced, engine,
                   ops, runs>>

Next ==
    \/ main_begin
    \/ predict_begin
    \/ main_download_and_extract_model
    \/ predict_download_and_extract_model
    \/ main_edit_dataset_json_for_prediction
    \/ predict_edit_dataset_json_for_prediction
    \/ main_run_nnunet_prediction
    \/ predict_nnunet_predict
    \/ main_rename
    \/ main_cleanup
    \/ predict_cleanup
    \/ predict_rename
    \/ SameProcess
    \/ NewProcess
    \/ DeleteInput

Spec == Init /\ [][Next]_vars

\* ---------------------------------------------------------------- properties
\* the steps of a run, read off two successive states
FetchStep == pc = "fetch" /\ pc' # "fetch"
StageStep == pc = "stage" /\ pc' # "stage"
StageReturns == pc = "stage" /\ pc' = "infer"
RenameStep == (pc = "rename" /\ pc' = "cleanup") \/ (pc = "done" /\ pc' = "renamed")

Occurs(x, s) == \E i \in 1..Len(s) : s[i] = x
Count(x, s) == Cardinality({i \in 1..Len(s) : s[i] = x})
EntryNames(dir) == {e.name : e \in dir}

\* the registry has an entry for the combination the run was given
HasEntry ==
    IF variant = "main"
    THEN <<args.mode, args.structure>> \in DOMAIN main_config
    ELSE <<args.animal, args.mode, args.structure>> \in DOMAIN predict_config

\* C1: after a successful run whose inference produced 001.nrrd, the output
\* directory holds exactly one file, <name>.nrrd, and none of the scratch files.
C1_OnlyRenamedResult ==
    (pc = "done" /\ produced) => outDir = {NameFile(args.name)}

\* C2: a call of download_and_extract_model that found the model directory
\* absent and returned has downloaded then extracted, leaves the model
\* directory existing and populated, and leaves no archive file.
C2_ArchiveRemoved ==
    (pc = "stage" /\ Occurs("urlretrieve", ops)) =>
        /\ Occurs("extractall", ops)
        /\ modelDir[model] # "absent"
        /\ ~zip[model]

\* C3: a call of download_and_extract_model that finds the model directory
\* present, whatever it holds, downloads nothing and extracts nothing, in the
\* first run and in every later one.
C3_NoDownloadWhenPresent ==
    [][(FetchStep /\ modelDir[model] # "absent") =>
          /\ ~Occurs("urlretrieve", ops')
          /\ ~Occurs("extractall", ops')
          /\ modelDir' = modelDir
          /\ manifest' = manifest]_vars

\* a later run found the directory it had extracted before and went on to staging
C3_Witness ==
    /\ runs = 2
    /\ pc = "stage"
    /\ modelDir[model] = "good"
    /\ ~Occurs("urlretrieve", ops)

\* C4: a run whose (animal, mode, structure) has no registry entry ends at the
\* lookup with a KeyError: nothing was downloaded, extracted, rewritten,
\* staged or inferred in that run.
C4_InvalidCombinationFailsFirst ==
    (pc # "idle" /\ ~HasEntry) =>
        /\ pc = "failed"
        /\ err = "KeyError"
        /\ model = None
        /\ ops = <<>>
        /\ imagesTs_path = None
        /\ engine = "none"

C4_Witness ==
    /\ variant = "predict"
    /\ args.animal = "pig"
    /\ pc = "failed"
    /\ err = "KeyError"
    /\ runs = 2

\* C5: every call of edit_dataset_json_for_prediction that returns leaves the
\* manifest it rewrote with no "training" key, numTraining 0, numTest 1 and
\* "test" a list of one entry naming the staged file ./imagesTs/001_0000.nrrd,
\* which exists; every other key keeps its value, and no other manifest changes.
C5_ManifestOneTestImage ==
    [][StageReturns =>
          LET d == manifest'[cache]
          IN /\ "training" \notin d.keys
             /\ {"numTraining", "numTest", "test"} \subseteq d.keys
             /\ d.numTraining = 0
             /\ d.numTest = 1
             /\ d.test = <<<<StagedRef>>>>
             /\ Len(d.test) = 1
             /\ lexists(imagesTs'[cache], "001_0000.nrrd")
             /\ d.keys \ {"training", "numTraining", "numTest", "test"}
                  = manifest[cache].keys \ {"training", "numTraining", "numTest", "test"}
             /\ d.labels = manifest[cache].labels
             /\ \A m \in Models \ {cache} : manifest'[m] = manifest[m]]_vars

\* the second run rewrote a manifest that shipped with a training list
C5_Witness ==
    /\ runs = 2
    /\ pc = "infer"
    /\ modelDir[cache] = "good"
    /\ Occurs("write_manifest", ops)
    /\ "training" \notin manifest[cache].keys
    /\ manifest[cache].numTest = 1

\* C6: a call of download_and_extract_model on a model directory that holds no
\* dataset.json raises FileNotFoundError, also after an earlier call found
\* another model's manifest; the cache is not left naming that other manifest
\* for the staging step.
C6_MissingManifestRaises ==
    [][(FetchStep /\ err' # "URLError" /\ ~HasManifest(modelDir'[model])) =>
          /\ pc' = "failed"
          /\ err' = "FileNotFoundError"
          /\ ~(pc' = "stage" /\ cache' # model)]_vars

\* C7: when the inference ends with an error the run ends with a runtime
\* failure: the inference ran once, and neither the rename nor the deletion of
\* the scratch files took place.
C7_InferenceFailureStops ==
    engine = "error" =>
        /\ pc = "failed"
        /\ err = "RuntimeError"
        /\ Count("predict", ops) = 1
        /\ ops[Len(ops)] = "predict"
        /\ ~Occurs("rename", ops)
        /\ ~Occurs("warn", ops)
        /\ ~Occurs("remove_scratch", ops)
        /\ ret = None

\* the failed inference left its json files in the output directory
C7_Witness ==
    /\ engine = "error"
    /\ pc = "failed"
    /\ ScratchFiles \subseteq outDir

\* C8 as stated: when 001.nrrd is missing, rename_prediction_file prints the
\* warning, changes nothing in the output directory and returns the path it
\* was given.
C8_ReturnsOriginalPath ==
    [][(RenameStep /\ ret \notin outDir) =>
          /\ warned'
          /\ outDir' = outDir
          /\ ret' = ret]_vars

\* C8 amended: when 001.nrrd is missing, rename_prediction_file prints the
\* warning and changes nothing in the output directory; main.py's function
\* returns the path it was given, predict.py's returns None.
C8_WarnsAndLeavesDirectory ==
    [][(RenameStep /\ ret \notin outDir) =>
          /\ warned'
          /\ outDir' = outDir
          /\ ret' = IF variant = "main" THEN ret ELSE None]_vars

\* main.py renamed nothing, warned, and handed back the path of the missing file
C8_Witness ==
    /\ variant = "main"
    /\ pc = "cleanup"
    /\ warned
    /\ ret = RawOutput
    /\ RawOutput \notin outDir
    /\ NameFile(args.name) \notin outDir

\* C9: whatever the extension of an existing input image, a staging step that
\* returns has put the image, as NRRD, at imagesTs/001_0000.nrrd next to the
\* manifest the fetch step found (the current model's whenever it has one),
\* as the only entry there, and returns that imagesTs directory.
C9_StagedNameFixed ==
    (pc = "infer" /\ inputs[args.input] # NoContent) =>
        /\ imagesTs_path = cache
        /\ (HasManifest(modelDir[model]) => cache = model)
        /\ EntryNames(imagesTs[cache]) = {"001_0000.nrrd"}
        /\ ReadEntry(imagesTs[cache], "001_0000.nrrd", inputs).img = inputs[args.input].img
        /\ ReadEntry(imagesTs[cache], "001_0000.nrrd", inputs).fmt = "nrrd"

\* in a second run an input of another format (.mha) was staged, converted to NRRD
C9_Witness ==
    /\ pc = "infer"
    /\ runs = 2
    /\ args.input = "scan.mha"
    /\ ReadEntry(imagesTs[cache], "001_0000.nrrd", inputs) = [img |-> "scan.mha", fmt |-> "nrrd"]

\* C10: whatever an earlier run left at imagesTs/001_0000.nrrd, the staging
\* step of a run given an existing image returns, and the staged location then
\* holds this run's image and nothing of the earlier run.
C10_StagedInputOverwritten ==
    [][(StageStep /\ cache # None /\ inputs[args.input] # NoContent) =>
          /\ pc' = "infer"
          /\ EntryNames(imagesTs'[cache]) = {"001_0000.nrrd"}
          /\ ReadEntry(imagesTs'[cache], "001_0000.nrrd", inputs').img = inputs[args.input].img
          /\ \A e \in imagesTs'[cache] : e.kind = "link" => e.target = args.input
          /\ inputs' = inputs]_vars

====
